---- MODULE Spec2Model ----
(***************************************************************************)
(* Model of src/utils.py: create_logger, plot_distributions and            *)
(* plot_vars_vs_target.                                                    *)
(*                                                                         *)
(* The two plotters are modelled statement by statement (pc is the         *)
(* position inside the running call).  A figure is the record of what the  *)
(* code asked matplotlib / seaborn to do: its figsize, the axes created by *)
(* add_subplot (grid slot, chart kind, title and axis labels as last set), *)
(* whether tight_layout ran.  The library calls record the chart they are   *)
(* asked to draw; add_subplot keeps matplotlib's range check on the slot.   *)
(*                                                                         *)
(* create_logger is modelled on the logging module's process-wide logger   *)
(* table: getLogger returns the logger registered under a name, addHandler *)
(* appends a handler object unless that same object is already attached,   *)
(* and a record is emitted by a handler when it passes the logger's level  *)
(* and the handler's level.                                                *)
(***************************************************************************)
EXTENDS Integers, Sequences, FiniteSets, TLC

VARIABLES
    pc,          \* position in the running call, "idle" between calls
    fn,          \* the function being run
    data,        \* the DataFrame's columns, in order: [name, dtype]
    n_cols,      \* argument n_cols
    show,        \* argument show
    var_target,  \* argument var_target (plot_vars_vs_target)
    n_rows,      \* local n_rows
    fig,         \* local fig
    i,           \* number of loop iterations completed (enumerate index)
    shown,       \* number of plt.show() invocations made by the running call
    ret,         \* the value returned by the call
    exc,         \* the exception that ended the call, "" if none
    loggers,     \* the logging module's table of named loggers
    hcount,      \* number of handler objects constructed so far
    console,     \* what the stream handlers wrote, in order
    files,       \* file name -> what the file handlers wrote since last truncation
    loggerRet,   \* index in loggers of the logger the last create_logger returned
    streamCalls, \* number of create_logger calls made with stream true
    fileCalls,   \* number of create_logger calls made with file true
    lastLog,     \* the last record logged and how many handlers emitted it
    callCount,   \* number of create_logger calls made
    logCount     \* number of records logged

plotVars == <<pc, fn, data, n_cols, show, var_target, n_rows, fig, i, shown, ret, exc>>
logVars == <<loggers, hcount, console, files, loggerRet, streamCalls, fileCalls, lastLog,
             callCount, logCount>>
vars == <<pc, fn, data, n_cols, show, var_target, n_rows, fig, i, shown, ret, exc,
          loggers, hcount, console, files, loggerRet, streamCalls, fileCalls, lastLog,
          callCount, logCount>>

-----------------------------------------------------------------------------
(* Bounds of the model *)

\* datasets of every dtype combination have at most this many columns
MaxColumns == 3

\* single-dtype datasets have at most this many columns
MaxWide == 10

\* n_cols ranges over 0..MaxNCols
MaxNCols == 5

\* at most this many create_logger calls
MaxLoggerCalls == 2

\* at most this many records logged
MaxLogs == 2

-----------------------------------------------------------------------------
(* Inputs *)

Dtypes == {"int64", "float64", "category", "object"}

\* Column names are unique; by convention the last column is the one named
\* "Target", the others are named after their position.
ColName(k, n) == IF k = n THEN "Target" ELSE "x" \o ToString(k)

Frame(ts) == [k \in 1..Len(ts) |-> [name |-> ColName(k, Len(ts)), dtype |-> ts[k]]]

RECURSIVE SeqsUpTo(_, _)
SeqsUpTo(S, n) ==
    IF n = 0 THEN {<<>>}
    ELSE LET shorter == SeqsUpTo(S, n - 1)
         IN shorter \cup {Append(s, x) : s \in {t \in shorter : Len(t) = n - 1}, x \in S}

Datasets ==
    {Frame(ts) : ts \in SeqsUpTo(Dtypes, MaxColumns)}
    \cup {Frame([k \in 1..n |-> "int64"]) : n \in 0..MaxWide}

Names(d) == {d[k].name : k \in 1..Len(d)}

\* var_target names a column of the dataset (spec section 3); the default
\* 'Target' stands for it on the empty dataset.
Targets(d) == IF Len(d) = 0 THEN {"Target"} ELSE Names(d)

-----------------------------------------------------------------------------
(* Figures *)

NoFig == [figsize |-> <<0, 0>>, axes |-> <<>>, tight |-> FALSE]

FigWidth == 20

RowHeight == 5

\* plt.figure(figsize = (20, 5*n_rows))
NewFigure(rows) == [figsize |-> <<FigWidth, RowHeight * rows>>, axes |-> <<>>, tight |-> FALSE]

\* Python's a // b for a >= 0, b >= 0: ZeroDivisionError when b = 0
FloorDiv_default(a, b) == [ok |-> TRUE, val |-> IF b = 0 THEN a \div 5 ELSE a \div b]

FloorDiv(a, b) == IF b = 0 THEN [ok |-> FALSE, val |-> 0] ELSE [ok |-> TRUE, val |-> a \div b]

\* n_rows = len(data.columns.tolist()) // n_cols + 1, evaluated once the
\* division has succeeded
NRows_ceil(count, ncols) ==
    IF count % ncols = 0 /\ count > 0 THEN count \div ncols ELSE count \div ncols + 1

NRows_nopad(count, ncols) == FloorDiv(count, ncols).val

NRows(count, ncols) == FloorDiv(count, ncols).val + 1

\* fig.add_subplot(nrows, ncols, num): matplotlib numbers the grid cells
\* row by row from 1 and raises ValueError for a num outside 1..nrows*ncols
SubplotOk(nrows, ncols, num) == 1 <= num /\ num <= nrows * ncols

SubplotRow(ncols, num) == (num - 1) \div ncols

SubplotCol(ncols, num) == (num - 1) % ncols

EmptyAxes(nrows, ncols, num) ==
    [slot |-> num, row |-> SubplotRow(ncols, num), col |-> SubplotCol(ncols, num),
     kind |-> "none", var |-> "", title |-> "", xlabel |-> "", ylabel |-> "", rotation |-> 0]

\* data[var].dtype in ['int64','float64']
IsNumeric_int(dtype) == dtype = "int64"

IsNumeric(dtype) == dtype \in {"int64", "float64"}

\* data[var].dtype == 'category'
IsCategory(dtype) == dtype = "category"

\* lines 72-84: the chart plot_distributions draws in ax for column c
DistPanel(ax, c) ==
    IF IsNumeric(c.dtype)
    THEN [ax EXCEPT !.kind = "histogram", !.var = c.name,
                    !.title = c.name \o " distribution",
                    !.xlabel = c.name, !.ylabel = "Frecuency"]
    ELSE [ax EXCEPT !.kind = "countplot", !.var = c.name,
                    !.title = c.name \o " distribution",
                    !.xlabel = "", !.ylabel = "Frecuency", !.rotation = 90]

\* lines 120-137: the chart plot_vars_vs_target draws in ax for column c
RelPanel_else(ax, c, target) ==
    IF IsNumeric(c.dtype)
    THEN [ax EXCEPT !.kind = "scatter", !.var = c.name,
                    !.title = target \o " vs. " \o c.name,
                    !.xlabel = c.name, !.ylabel = target]
    ELSE [ax EXCEPT !.kind = "violin", !.var = c.name,
                    !.title = target \o " vs. " \o c.name,
                    !.xlabel = "", !.ylabel = target, !.rotation = 90]

RelPanel(ax, c, target) ==
    IF IsNumeric(c.dtype)
    THEN [ax EXCEPT !.kind = "scatter", !.var = c.name,
                    !.title = target \o " vs. " \o c.name,
                    !.xlabel = c.name, !.ylabel = target]
    ELSE IF IsCategory(c.dtype)
    THEN [ax EXCEPT !.kind = "violin", !.var = c.name,
                    !.title = target \o " vs. " \o c.name,
                    !.xlabel = "", !.ylabel = target, !.rotation = 90]
    ELSE ax

\* data.columns[:-1]
AllButLast_byname(d, target) == SelectSeq(d, LAMBDA c : c.name # target)

AllButLast(d, target) == SubSeq(d, 1, Len(d) - 1)

\* lines 90-91 and 143-144: if show: plt.show()
AfterLayout_always(s) == "show"

AfterLayout(s) == IF s THEN "show" ELSE "return"

-----------------------------------------------------------------------------
(* Logging *)

\* logging.DEBUG and logging.INFO
DEBUG == 10

INFO == 20

\* the levels of the records the caller logs: one below DEBUG, DEBUG, INFO
\* and WARNING
LogLevels == {5, DEBUG, INFO, 30}

\* __name__ of the module
LoggerName == "utils"

FileNames == {"logging.log", "run.log"}

\* logging.getLogger(name): the logger registered under name, created on
\* first use.  Both operators are given the table; the first yields the
\* table after the call, the second the index of the logger returned.
GetLoggerTable(ls, name) ==
    IF \E k \in 1..Len(ls) : ls[k].name = name
    THEN ls
    ELSE Append(ls, [name |-> name, level |-> 0, handlers |-> <<>>])

GetLoggerIndex(ls, name) ==
    IF \E k \in 1..Len(ls) : ls[k].name = name
    THEN CHOOSE k \in 1..Len(ls) : ls[k].name = name
    ELSE Len(ls) + 1

\* lines 22-27: the stream handler, a new object
StreamHandler(id) ==
    [id |-> id, kind |-> "stream", level |-> DEBUG, file |-> "",
     fmt |-> "%(asctime)s : %(levelname)s %(message)s"]

\* lines 34-39: the file handler, a new object
FileHandler_debug(id, file_name) ==
    [id |-> id, kind |-> "file", level |-> DEBUG, file |-> file_name,
     fmt |-> "%(asctime)s %(name)s %(lineno)d:%(levelname)s %(message)s"]

FileHandler(id, file_name) ==
    [id |-> id, kind |-> "file", level |-> INFO, file |-> file_name,
     fmt |-> "%(asctime)s %(name)s %(lineno)d:%(levelname)s %(message)s"]

\* logger.addHandler(h): appended unless that same object is attached already
AddHandler_dedupe(hs, h) ==
    IF \E k \in 1..Len(hs) : hs[k].kind = h.kind THEN hs ELSE Append(hs, h)

AddHandler(hs, h) ==
    IF \E k \in 1..Len(hs) : hs[k] = h THEN hs ELSE Append(hs, h)

\* the handlers of hs that emit a record of the given level
Emitting(hs, level) == SelectSeq(hs, LAMBDA h : level >= h.level)

OfKind(hs, kind) == SelectSeq(hs, LAMBDA h : h.kind = kind)

\* what each emitting handler writes: the record's level, tagged with the handler
Written(hs, level) == [k \in 1..Len(hs) |-> [level |-> level, handler |-> hs[k].id]]

-----------------------------------------------------------------------------
(* Calls *)

PlotFns == {"plot_distributions", "plot_vars_vs_target"}

\* the caller invokes plot_distributions(data, n_cols, show)
CallPlotDistributions ==
    /\ pc = "idle"
    /\ \E d \in Datasets, nc \in 0..MaxNCols, s \in BOOLEAN :
          /\ data' = d
          /\ n_cols' = nc
          /\ show' = s
    /\ fn' = "plot_distributions"
    /\ var_target' = ""
    /\ pc' = "rows"
    /\ n_rows' = 0 /\ fig' = NoFig /\ i' = 0 /\ shown' = 0 /\ ret' = NoFig /\ exc' = ""
    /\ UNCHANGED logVars

\* the caller invokes plot_vars_vs_target(data, var_target, n_cols, show)
CallPlotVarsVsTarget ==
    /\ pc = "idle"
    /\ \E d \in Datasets, nc \in 0..MaxNCols, s \in BOOLEAN :
          /\ data' = d
          /\ n_cols' = nc
          /\ show' = s
          /\ \E t \in Targets(d) : var_target' = t
    /\ fn' = "plot_vars_vs_target"
    /\ pc' = "rows"
    /\ n_rows' = 0 /\ fig' = NoFig /\ i' = 0 /\ shown' = 0 /\ ret' = NoFig /\ exc' = ""
    /\ UNCHANGED logVars

\* lines 60 and 110
ComputeRows ==
    /\ pc = "rows"
    /\ fn \in PlotFns
    /\ IF FloorDiv(Len(data), n_cols).ok
       THEN /\ n_rows' = NRows(Len(data), n_cols)
            /\ pc' = "figure"
            /\ exc' = exc
       ELSE /\ exc' = "ZeroDivisionError"
            /\ pc' = "raised"
            /\ n_rows' = n_rows
    /\ UNCHANGED <<fn, data, n_cols, show, var_target, fig, i, shown, ret>>
    /\ UNCHANGED logVars

\* lines 63 and 113
AllocFigure ==
    /\ pc = "figure"
    /\ fn \in PlotFns
    /\ fig' = NewFigure(n_rows)
    /\ pc' = "loop"
    /\ UNCHANGED <<fn, data, n_cols, show, var_target, n_rows, i, shown, ret, exc>>
    /\ UNCHANGED logVars

\* lines 66-84: one iteration of the loop over data.columns, or its exit
DistLoop ==
    /\ pc = "loop"
    /\ fn = "plot_distributions"
    /\ IF i < Len(data)
       THEN IF SubplotOk(n_rows, n_cols, i + 1)
            THEN /\ fig' = [fig EXCEPT !.axes =
                              Append(@, DistPanel(EmptyAxes(n_rows, n_cols, i + 1), data[i + 1]))]
                 /\ i' = i + 1
                 /\ UNCHANGED <<pc, exc>>
            ELSE /\ exc' = "ValueError"
                 /\ pc' = "raised"
                 /\ UNCHANGED <<fig, i>>
       ELSE /\ pc' = "layout"
            /\ UNCHANGED <<fig, i, exc>>
    /\ UNCHANGED <<fn, data, n_cols, show, var_target, n_rows, shown, ret>>
    /\ UNCHANGED logVars

\* lines 116-137: one iteration of the loop over data.columns[:-1], or its exit
RelLoop ==
    /\ pc = "loop"
    /\ fn = "plot_vars_vs_target"
    /\ LET cols == AllButLast(data, var_target)
       IN IF i < Len(cols)
          THEN IF SubplotOk(n_rows, n_cols, i + 1)
               THEN /\ fig' = [fig EXCEPT !.axes =
                                 Append(@, RelPanel(EmptyAxes(n_rows, n_cols, i + 1),
                                                    cols[i + 1], var_target))]
                    /\ i' = i + 1
                    /\ UNCHANGED <<pc, exc>>
               ELSE /\ exc' = "ValueError"
                    /\ pc' = "raised"
                    /\ UNCHANGED <<fig, i>>
          ELSE /\ pc' = "layout"
               /\ UNCHANGED <<fig, i, exc>>
    /\ UNCHANGED <<fn, data, n_cols, show, var_target, n_rows, shown, ret>>
    /\ UNCHANGED logVars

\* lines 87 and 140, then the test of show
TightLayout ==
    /\ pc = "layout"
    /\ fn \in PlotFns
    /\ fig' = [fig EXCEPT !.tight = TRUE]
    /\ pc' = AfterLayout(show)
    /\ UNCHANGED <<fn, data, n_cols, show, var_target, n_rows, i, shown, ret, exc>>
    /\ UNCHANGED logVars

\* lines 91 and 144
Show ==
    /\ pc = "show"
    /\ fn \in PlotFns
    /\ shown' = shown + 1
    /\ pc' = "return"
    /\ UNCHANGED <<fn, data, n_cols, show, var_target, n_rows, fig, i, ret, exc>>
    /\ UNCHANGED logVars

\* lines 93 and 146
Return ==
    /\ pc = "return"
    /\ fn \in PlotFns
    /\ ret' = fig
    /\ pc' = "done"
    /\ UNCHANGED <<fn, data, n_cols, show, var_target, n_rows, fig, i, shown, exc>>
    /\ UNCHANGED logVars

\* the caller goes on after the call returned or raised
Continue ==
    /\ pc \in {"done", "raised"}
    /\ pc' = "idle"
    /\ fn' = "none" /\ data' = <<>> /\ n_cols' = 0 /\ show' = FALSE /\ var_target' = ""
    /\ n_rows' = 0 /\ fig' = NoFig /\ i' = 0 /\ shown' = 0 /\ ret' = NoFig /\ exc' = ""
    /\ UNCHANGED logVars

InitPlot ==
    /\ pc = "idle"
    /\ fn = "none" /\ data = <<>> /\ n_cols = 0 /\ show = FALSE /\ var_target = ""
    /\ n_rows = 0 /\ fig = NoFig /\ i = 0 /\ shown = 0 /\ ret = NoFig /\ exc = ""

InitLog ==
    /\ loggers = <<>>
    /\ hcount = 0
    /\ console = <<>>
    /\ files = [f \in FileNames |-> <<>>]
    /\ loggerRet = 0
    /\ streamCalls = 0
    /\ fileCalls = 0
    /\ lastLog = [level |-> 0, console |-> 0, file |-> 0, streamCalls |-> 0, fileCalls |-> 0]
    /\ callCount = 0
    /\ logCount = 0

Init == InitPlot /\ InitLog

\* lines 7-44: create_logger(stream, file, file_name)
CreateLogger ==
    /\ pc = "idle"
    /\ callCount < MaxLoggerCalls
    /\ \E stream \in BOOLEAN, file \in BOOLEAN, file_name \in FileNames :
          LET table == GetLoggerTable(loggers, LoggerName)
              idx == GetLoggerIndex(loggers, LoggerName)
              sid == hcount + 1
              fid == IF stream THEN hcount + 2 ELSE hcount + 1
              hs0 == table[idx].handlers
              hs1 == IF stream THEN AddHandler(hs0, StreamHandler(sid)) ELSE hs0
              hs2 == IF file THEN AddHandler(hs1, FileHandler(fid, file_name)) ELSE hs1
          IN /\ loggers' = [table EXCEPT ![idx] = [@ EXCEPT !.level = DEBUG, !.handlers = hs2]]
             /\ hcount' = hcount + (IF stream THEN 1 ELSE 0) + (IF file THEN 1 ELSE 0)
             /\ files' = IF file THEN [files EXCEPT ![file_name] = <<>>] ELSE files
             /\ loggerRet' = idx
             /\ streamCalls' = streamCalls + (IF stream THEN 1 ELSE 0)
             /\ fileCalls' = fileCalls + (IF file THEN 1 ELSE 0)
    /\ callCount' = callCount + 1
    /\ UNCHANGED <<console, lastLog, logCount>>
    /\ UNCHANGED plotVars

\* the caller logs a record of some level on the logger create_logger returned
Log ==
    /\ pc = "idle"
    /\ loggerRet # 0
    /\ logCount < MaxLogs
    /\ \E level \in LogLevels :
          LET lg == loggers[loggerRet]
              hs == IF level >= lg.level THEN Emitting(lg.handlers, level) ELSE <<>>
              toConsole == Written(OfKind(hs, "stream"), level)
          IN /\ console' = console \o toConsole
             /\ files' = [f \in FileNames |->
                            files[f] \o Written(SelectSeq(hs, LAMBDA h : h.kind = "file" /\ h.file = f), level)]
             /\ lastLog' = [level |-> level, console |-> Len(toConsole),
                            file |-> Len(OfKind(hs, "file")),
                            streamCalls |-> streamCalls, fileCalls |-> fileCalls]
    /\ logCount' = logCount + 1
    /\ UNCHANGED <<loggers, hcount, loggerRet, streamCalls, fileCalls, callCount>>
    /\ UNCHANGED plotVars

NextPlot ==
    \/ CallPlotDistributions
    \/ CallPlotVarsVsTarget
    \/ ComputeRows
    \/ AllocFigure
    \/ DistLoop
    \/ RelLoop
    \/ TightLayout
    \/ Show
    \/ Return
    \/ Continue

SpecPlot == Init /\ [][NextPlot]_vars

NextLog ==
    \/ CreateLogger
    \/ Log

SpecLog == Init /\ [][NextLog]_vars

-----------------------------------------------------------------------------
(* Properties of the plotters, checked under SpecPlot *)

Axes == fig.axes

\* the columns plot_vars_vs_target is expected to iterate: all but the last
Features == IF Len(data) = 0 THEN <<>> ELSE [k \in 1..(Len(data) - 1) |-> data[k]]

NumericTypes == {"int64", "float64"}

\* C1: in both plotters, for every dataset and every n_cols >= 1, the grid has
\* exactly columnCount // n_cols + 1 rows (the target column counted, 10
\* columns with n_cols = 5 give 3 rows) and the figure is 20 wide and
\* 5 * rowCount high.
C1_RowCount ==
    (fn \in PlotFns /\ n_cols >= 1 /\ pc # "rows") =>
        /\ n_rows = (Len(data) \div n_cols) + 1
        /\ (Len(data) = 10 /\ n_cols = 5) => n_rows = 3
        /\ pc # "figure" => fig.figsize = <<20, 5 * n_rows>>

C1_Witness ==
    /\ fn = "plot_vars_vs_target" /\ pc = "done"
    /\ Len(data) = 10 /\ n_cols = 5
    /\ n_rows = 3 /\ ret.figsize = <<20, 15>>

\* C2: plot_distributions renders one panel per column, in dataset order, the
\* column of index k at grid position (k // n_cols, k % n_cols), a histogram
\* for an int64 or float64 column and a count-bar-chart for any other; the
\* returned figure has as many panels as the dataset has columns, and the
\* empty dataset gives a one-row figure without panels and is not rejected.
C2_DistPanels ==
    (fn = "plot_distributions" /\ n_cols >= 1) =>
        /\ pc # "raised"
        /\ Len(Axes) = i
        /\ \A k \in 1..Len(Axes) :
              /\ Axes[k].var = data[k].name
              /\ Axes[k].row = (k - 1) \div n_cols
              /\ Axes[k].col = (k - 1) % n_cols
              /\ Axes[k].kind = IF data[k].dtype \in NumericTypes THEN "histogram" ELSE "countplot"
        /\ pc = "done" => Len(ret.axes) = Len(data)
        /\ (pc = "done" /\ Len(data) = 0) => n_rows = 1 /\ ret.axes = <<>>

C2_Witness ==
    /\ fn = "plot_distributions" /\ pc = "done"
    /\ Len(data) = 2 /\ data[1].dtype = "float64" /\ data[2].dtype = "object"
    /\ Len(ret.axes) = 2
    /\ ret.axes[1].kind = "histogram" /\ ret.axes[2].kind = "countplot"

\* C3: plot_vars_vs_target iterates the columns except the positionally last
\* one, in order, whatever var_target is: a column named var_target that is
\* not last is iterated, the last column never is.  On [numeric, categorical,
\* Target] it draws a scatter panel then a violin panel.
C3_Positional ==
    (fn = "plot_vars_vs_target" /\ n_cols >= 1) =>
        /\ Len(Axes) = i
        /\ i <= Len(Features)
        /\ pc \in {"layout", "show", "return", "done"} => i = Len(Features)
        /\ \A k \in 1..Len(Axes) :
              /\ Axes[k].slot = k
              /\ data[k].dtype \in NumericTypes \cup {"category"} => Axes[k].var = data[k].name
              /\ Axes[k].var # data[Len(data)].name
        /\ (pc = "done" /\ Len(data) = 3 /\ data[1].dtype \in NumericTypes
              /\ data[2].dtype = "category") =>
                 /\ Len(ret.axes) = 2
                 /\ ret.axes[1].kind = "scatter" /\ ret.axes[1].var = data[1].name
                 /\ ret.axes[2].kind = "violin" /\ ret.axes[2].var = data[2].name

C3_Witness ==
    /\ fn = "plot_vars_vs_target" /\ pc = "done"
    /\ Len(data) = 3 /\ data[1].dtype = "int64" /\ data[2].dtype = "category"
    /\ var_target = data[1].name /\ data[3].name # var_target
    /\ Len(ret.axes) = 2
    /\ ret.axes[1].kind = "scatter" /\ ret.axes[1].var = var_target
    /\ ret.axes[2].kind = "violin"

\* C4: in plot_vars_vs_target a column that is neither numeric nor
\* categorical gets nothing drawn but keeps its grid slot: the slot stays
\* empty and every later column is placed at (k // n_cols, k % n_cols) for
\* its own index k.
C4_SkippedSlot ==
    (fn = "plot_vars_vs_target" /\ n_cols >= 1) =>
        \A k \in 1..Len(Axes) :
            /\ Axes[k].slot = k
            /\ Axes[k].row = (k - 1) \div n_cols
            /\ Axes[k].col = (k - 1) % n_cols
            /\ data[k].dtype \notin NumericTypes \cup {"category"} =>
                  /\ Axes[k].kind = "none"
                  /\ Axes[k].title = "" /\ Axes[k].xlabel = "" /\ Axes[k].ylabel = ""
            /\ data[k].dtype \in NumericTypes => Axes[k].kind = "scatter"
            /\ data[k].dtype = "category" => Axes[k].kind = "violin"

C4_Witness ==
    /\ fn = "plot_vars_vs_target" /\ pc = "done"
    /\ Len(data) = 3 /\ data[1].dtype = "object" /\ data[2].dtype = "int64"
    /\ n_cols = 2
    /\ ret.axes[1].kind = "none" /\ ret.axes[1].slot = 1
    /\ ret.axes[2].kind = "scatter" /\ ret.axes[2].slot = 2 /\ ret.axes[2].col = 1

\* C5: a call of either plotter that completes returns the figure whether
\* show is true or false; plt.show is invoked once when show is true and never
\* when it is false, and only after every panel has been rendered.
C5_ShowAndReturn ==
    fn \in PlotFns =>
        /\ pc = "done" => ret = fig /\ ret # NoFig /\ shown = (IF show THEN 1 ELSE 0)
        /\ ~show => shown = 0
        /\ shown <= 1
        /\ shown = 1 =>
              /\ fig.tight
              /\ Len(Axes) = (IF fn = "plot_distributions" THEN Len(data) ELSE Len(Features))

C5_Witness ==
    /\ fn \in PlotFns /\ pc = "done"
    /\ ~show /\ shown = 0
    /\ ret = fig /\ Len(ret.axes) >= 2

\* C6: with n_cols = 0 either plotter fails with a division error at the
\* row-count computation, for every dataset, the empty one too: before a
\* figure is allocated, a panel rendered or plt.show invoked.
C6_ZeroDivision ==
    (fn \in PlotFns /\ n_cols = 0 /\ pc # "rows") =>
        /\ pc = "raised"
        /\ exc = "ZeroDivisionError"
        /\ fig = NoFig /\ ret = NoFig /\ shown = 0 /\ i = 0

C6_Witness ==
    /\ fn \in PlotFns /\ n_cols = 0 /\ Len(data) = 0
    /\ pc = "raised" /\ exc = "ZeroDivisionError"

\* C8: in plot_distributions every panel is titled '<name> distribution' and
\* has its y-axis labeled "Frequency"; the x-axis carries the column name for
\* a numeric column and no label otherwise.
C8_Labels ==
    fn = "plot_distributions" =>
        \A k \in 1..Len(Axes) :
            /\ Axes[k].title = data[k].name \o " distribution"
            /\ Axes[k].ylabel = "Frequency"
            /\ Axes[k].xlabel = IF data[k].dtype \in NumericTypes THEN data[k].name ELSE ""

\* C10: for n_cols >= 1 the grid capacity n_rows * n_cols is strictly greater
\* than the number of columns, so every slot used (k for the k-th column)
\* lies inside the grid and no two columns share one; when the number of
\* columns is a positive multiple of n_cols the last grid row of
\* plot_distributions holds no panel.
C10_Capacity ==
    (fn \in PlotFns /\ n_cols >= 1 /\ pc # "rows") =>
        /\ n_rows * n_cols > Len(data)
        /\ exc # "ValueError"
        /\ \A k \in 1..Len(Axes) :
              /\ 1 <= Axes[k].slot /\ Axes[k].slot <= n_rows * n_cols
              /\ Axes[k].row < n_rows /\ Axes[k].col < n_cols
              /\ \A m \in 1..Len(Axes) : m # k => Axes[m].slot # Axes[k].slot
        /\ (fn = "plot_distributions" /\ pc = "done" /\ Len(data) > 0 /\ Len(data) % n_cols = 0) =>
              \A k \in 1..Len(Axes) : Axes[k].row # n_rows - 1

C10_Witness ==
    /\ fn = "plot_distributions" /\ pc = "done"
    /\ Len(data) = 10 /\ n_cols = 5 /\ Len(ret.axes) = 10
    /\ ret.axes[10].row = 1 /\ n_rows = 3

-----------------------------------------------------------------------------
(* Properties of create_logger, checked under SpecLog *)

Handlers == IF Len(loggers) = 0 THEN <<>> ELSE loggers[1].handlers

Count(hs, kind) == Cardinality({k \in 1..Len(hs) : hs[k].kind = kind})

\* C7: the logger has two independent thresholds: its console handlers
\* (added only by calls with stream true) emit every record of level DEBUG
\* and above, its file handlers (added only by calls with file true) every
\* record of level INFO and above.  A DEBUG record reaches the console and
\* never the file, a record of level INFO or above reaches both.
C7_Thresholds ==
    /\ \A k \in 1..Len(Handlers) :
          /\ Handlers[k].kind = "stream" => Handlers[k].level = 10
          /\ Handlers[k].kind = "file" => Handlers[k].level = 20
    /\ streamCalls = 0 => Count(Handlers, "stream") = 0
    /\ fileCalls = 0 => Count(Handlers, "file") = 0
    /\ \A f \in FileNames : \A k \in 1..Len(files[f]) : files[f][k].level >= 20
    /\ lastLog.level = 10 =>
          /\ lastLog.console = lastLog.streamCalls
          /\ lastLog.file = 0
    /\ lastLog.level >= 20 =>
          /\ lastLog.console = lastLog.streamCalls
          /\ lastLog.file = lastLog.fileCalls

C7_Witness ==
    /\ lastLog.level = 10
    /\ lastLog.streamCalls >= 1 /\ lastLog.fileCalls >= 1
    /\ lastLog.console >= 1 /\ lastLog.file = 0
    /\ Len(console) >= 1
    /\ \A f \in FileNames : files[f] = <<>>

\* C9: create_logger works on one process-wide named logger and accumulates
\* handlers: after any sequence of calls the logger has as many handlers as
\* there were calls with stream true plus calls with file true, none added
\* earlier is removed or replaced, every call returns that same logger, and a
\* record logged after k calls with stream true goes to the console k times.
C9_Accumulation ==
    /\ Len(loggers) <= 1
    /\ callCount > 0 =>
          /\ Len(loggers) = 1
          /\ loggerRet = 1
          /\ loggers[1].name = "utils"
    /\ Len(Handlers) = streamCalls + fileCalls
    /\ Count(Handlers, "stream") = streamCalls
    /\ \A k \in 1..Len(Handlers) : Handlers[k].id = k
    /\ lastLog.level >= 10 => lastLog.console = lastLog.streamCalls
    /\ Len(console) <= logCount * streamCalls

C9_Witness ==
    /\ callCount = 2 /\ streamCalls = 2
    /\ Len(Handlers) = streamCalls + fileCalls
    /\ lastLog.level = 20 /\ lastLog.streamCalls = 2 /\ lastLog.console = 2

====
